---- MODULE Spec2Model ----
(***************************************************************************)
(* Model of execute_code (src/tools.py), the remote code-execution         *)
(* pipeline: code-block extraction, language validation, request           *)
(* construction, bounded retry over the sandbox endpoint and the           *)
(* normalised (result, error) return value.                                *)
(*                                                                         *)
(* Strings that the code takes apart (the completion) are sequences of     *)
(* tokens; the token Fence is the three-backtick fence marker and the      *)
(* token "python" directly after it forms the tagged fence.  Strings that  *)
(* the code only builds (error messages) are sequences of string pieces,   *)
(* so that str.replace on the log prefix is computed, not assumed.         *)
(***************************************************************************)
EXTENDS Integers, Sequences, FiniteSets, TLC

VARIABLES pc, completion, other_args, language, request_id, code, payload,
          attempt, last_error, ret, events

(* do_math (src/tools.py): its arguments and its return value *)
VARIABLES math_a, math_b, math_operation, math_ret

math_vars == <<math_a, math_b, math_operation, math_ret>>

vars == <<pc, completion, other_args, language, request_id, code, payload,
          attempt, last_error, ret, events, math_vars>>

----------------------------------------------------------------------------
(* Bounds of the model *)

MaxLen == 3

MaxExtractLen == 5

MaxInt == 2

(* Program constants, src/utils.py *)

MAX_RETRIES == 3

INITIAL_RETRY_DELAY == 1

API_TIMEOUT == 10

SUPPORTED_LANGUAGES ==
    {"python", "cpp", "nodejs", "go", "go_test", "java", "php", "csharp",
     "bash", "typescript", "sql", "rust", "cuda", "lua", "R", "perl", "D_ut",
     "ruby", "scala", "julia", "pytest", "junit", "kotlin_script", "jest",
     "verilog", "python_gpu", "lean", "swift", "racket"}

----------------------------------------------------------------------------
(* Input domains *)

Fence == "<3 backticks>"

Tokens == {Fence, "python", "\n", " ", "x=1"}

AlphaTokens == {"python"}

WhitespaceTokens == {"\n", " "}

Completions == UNION {[1..n -> Tokens] : n \in 0..MaxLen}

LongCompletions == UNION {[1..n -> Tokens] : n \in 0..MaxExtractLen}

Languages == {"python", "rust", "brainfuck", ""}

RequestIds == {"uuid-1", "uuid-2"}

DefaultArgs ==
    [stdin |-> "", compile_timeout |-> 10, run_timeout |-> 5,
     memory_limit_mb |-> 128]

OtherArgs ==
    {DefaultArgs,
     [stdin |-> "1 2", compile_timeout |-> 1, run_timeout |-> 2,
      memory_limit_mb |-> 64]}

----------------------------------------------------------------------------
(* Python values that execute_code returns *)

PyNone == [type |-> "NoneType", val |-> <<>>]

PyStr(pieces) == [type |-> "str", val |-> pieces]

PyFloatZero == [type |-> "float", val |-> <<"0.0">>]

PyErrorList(msg) == [type |-> "list", val |-> <<"error", msg>>]

PyDict(body) == [type |-> "dict", val |-> <<body>>]

NoReturn == <<>>

NoPayload == [built |-> FALSE]

----------------------------------------------------------------------------
(* str operations used by the extraction, on token sequences *)

Find(s, sep) ==
    LET hits == {i \in 1..(Len(s) - Len(sep) + 1) :
                    SubSeq(s, i, i + Len(sep) - 1) = sep}
    IN IF hits = {} THEN 0 ELSE CHOOSE i \in hits : \A j \in hits : i <= j

Contains(s, sep) == Find(s, sep) # 0

RECURSIVE Split(_, _)
Split(s, sep) ==
    LET i == Find(s, sep)
    IN IF i = 0 THEN <<s>>
       ELSE <<SubSeq(s, 1, i - 1)>> \o Split(SubSeq(s, i + Len(sep), Len(s)), sep)

SplitOnce(s, sep) ==
    LET i == Find(s, sep)
    IN IF i = 0 THEN <<s>>
       ELSE <<SubSeq(s, 1, i - 1), SubSeq(s, i + Len(sep), Len(s))>>

RECURSIVE LStrip(_)
LStrip(s) ==
    IF s # <<>> /\ Head(s) \in WhitespaceTokens THEN LStrip(Tail(s)) ELSE s

RECURSIVE RStrip(_)
RStrip(s) ==
    IF s # <<>> /\ s[Len(s)] \in WhitespaceTokens
    THEN RStrip(SubSeq(s, 1, Len(s) - 1)) ELSE s

(* variant: str.strip() forgotten on the first line *)
StripNothing(s) == s

Strip(s) == LStrip(RStrip(s))

IsAlpha(s) == s # <<>> /\ \A i \in 1..Len(s) : s[i] \in AlphaTokens

TaggedFence == <<Fence, "python">>

BareFence == <<Fence>>

(* variant: the missing-fence rejection is dropped *)
ExtractCodeNoReject(c) ==
    IF Contains(c, BareFence)
    THEN [found |-> TRUE, code |-> Split(c, BareFence)[2]]
    ELSE [found |-> TRUE, code |-> c]

(* variant: the first tagged block is taken instead of the last *)
ExtractCodeFirstTagged(c) ==
    IF Contains(c, TaggedFence)
    THEN LET tagged == Split(c, TaggedFence)
         IN [found |-> TRUE, code |-> Split(tagged[2], BareFence)[1]]
    ELSE IF Contains(c, BareFence)
    THEN LET parts == Split(c, BareFence)
         IN IF Contains(parts[2], <<"\n">>)
            THEN LET fr == SplitOnce(parts[2], <<"\n">>)
                 IN IF IsAlpha(Strip(fr[1]))
                    THEN [found |-> TRUE, code |-> fr[2]]
                    ELSE [found |-> TRUE, code |-> parts[2]]
            ELSE [found |-> TRUE, code |-> parts[2]]
    ELSE [found |-> FALSE, code |-> c]

ExtractCode(c) ==
    IF Contains(c, TaggedFence)
    THEN LET tagged == Split(c, TaggedFence)
         IN [found |-> TRUE, code |-> Split(tagged[Len(tagged)], BareFence)[1]]
    ELSE IF Contains(c, BareFence)
    THEN LET parts == Split(c, BareFence)
         IN IF Len(parts) >= 2
            THEN IF Contains(parts[2], <<"\n">>)
                 THEN LET fr == SplitOnce(parts[2], <<"\n">>)
                      IN IF IsAlpha(Strip(fr[1]))
                         THEN [found |-> TRUE, code |-> fr[2]]
                         ELSE [found |-> TRUE, code |-> parts[2]]
                 ELSE [found |-> TRUE, code |-> parts[2]]
            ELSE [found |-> TRUE, code |-> c]
    ELSE [found |-> FALSE, code |-> c]

----------------------------------------------------------------------------
(* Exceptions, with the classes an except clause can match them by *)

ConnectionError ==
    [cls |-> "requests.ConnectionError",
     bases |-> {"requests.ConnectionError", "requests.RequestException",
                "Exception"},
     text |-> "Connection refused"]

Timeout ==
    [cls |-> "requests.Timeout",
     bases |-> {"requests.Timeout", "requests.RequestException", "Exception"},
     text |-> "Read timed out"]

OtherException ==
    [cls |-> "RuntimeError",
     bases |-> {"RuntimeError", "Exception"},
     text |-> "unexpected"]

HTTPError(status) ==
    [cls |-> "requests.HTTPError",
     bases |-> {"requests.HTTPError", "requests.RequestException",
                "Exception"},
     text |-> ToString(status) \o " Error for url"]

(* response.json() on a body that is not JSON raises json.JSONDecodeError   *)
(* in requests before 2.27 and requests.JSONDecodeError, a subclass of both *)
(* RequestException and json.JSONDecodeError, from 2.27 on; the repository  *)
(* does not pin the version.                                                *)
StdlibJSONDecodeError ==
    [cls |-> "json.JSONDecodeError",
     bases |-> {"json.JSONDecodeError", "ValueError", "Exception"},
     text |-> "Expecting value"]

RequestsJSONDecodeError ==
    [cls |-> "requests.JSONDecodeError",
     bases |-> {"requests.JSONDecodeError", "requests.InvalidJSONError",
                "requests.RequestException", "json.JSONDecodeError",
                "ValueError", "Exception"},
     text |-> "Expecting value"]

PostExceptions == {ConnectionError, Timeout, OtherException}

DecodeExceptions == {StdlibJSONDecodeError, RequestsJSONDecodeError}

----------------------------------------------------------------------------
(* The remote endpoint *)

Statuses == {200, 201, 300, 404, 500, 504}

JsonObjectBody == "{\"status\": \"Success\"}"

JsonNullBody == "null"

NotJsonBody == "<html>Bad Gateway</html>"

Bodies == {JsonObjectBody, JsonNullBody, NotJsonBody}

IsValidJson(body) == body \in {JsonObjectBody, JsonNullBody}

JsonValue(body) == IF body = JsonNullBody THEN PyNone ELSE PyDict(body)

RaisesForStatus(status) == 400 <= status /\ status < 600

----------------------------------------------------------------------------
(* Observable effects: log lines, outbound calls, sleeps, in program order *)

Log(level) == [kind |-> "log", arg |-> level, n |-> 0]

Post(timeout) == [kind |-> "post", arg |-> "", n |-> timeout]

Response(status) == [kind |-> "response", arg |-> "", n |-> status]

Raised(e) == [kind |-> "raise", arg |-> e.cls, n |-> 0]

Json(body) == [kind |-> "json", arg |-> body, n |-> 0]

Sleep(delay) == [kind |-> "sleep", arg |-> "", n |-> delay]

OfKind(k) == SelectSeq(events, LAMBDA ev : ev.kind = k)

Calls == Len(OfKind("post"))

Sleeps == [i \in 1..Len(OfKind("sleep")) |-> OfKind("sleep")[i].n]

ResponseStatuses == [i \in 1..Len(OfKind("response")) |-> OfKind("response")[i].n]

----------------------------------------------------------------------------
(* Messages *)

LogPrefix(id) == "[Request ID: " \o id \o "] "

Replace(s, old, new) == [i \in 1..Len(s) |-> IF s[i] = old THEN new ELSE s[i]]

MissingCodeBlockReturn ==
    <<PyFloatZero, PyErrorList("Invalid completion (missing code block)")>>

UnsupportedLanguageError(id, lang) ==
    <<LogPrefix(id), "Unsupported language: ", lang>>

GatewayTimeoutError(id, att) ==
    <<LogPrefix(id), "API Request Error: Gateway Timeout (504) on attempt ",
      ToString(att + 1), "/", ToString(MAX_RETRIES)>>

RequestError(id, e) == <<LogPrefix(id), "API Request Error: ", e.text>>

JSONDecodeErrorMsg(id, e) ==
    <<LogPrefix(id), "API Response JSON Decode Error: ", e.text>>

UnexpectedError(id, e) == <<LogPrefix(id), "Unexpected Error: ", e.text>>

NoError == <<>>

----------------------------------------------------------------------------
(* Pieces of execute_code *)

(* variant: the language check is skipped *)
LanguageSupportedAlways(lang) == TRUE

LanguageSupported(lang) == lang \in SUPPORTED_LANGUAGES

BuildPayload(o, c, lang) ==
    [built |-> TRUE,
     compile_timeout |-> o.compile_timeout,
     run_timeout |-> o.run_timeout,
     code |-> c,
     stdin |-> o.stdin,
     memory_limit_MB |-> o.memory_limit_mb,
     language |-> lang,
     files |-> {},
     fetch_files |-> <<>>]

RequestTimeout(o) == o.compile_timeout + o.run_timeout + API_TIMEOUT

IsGatewayTimeout(status) == status = 504

(* variant: sleeps after the last attempt too *)
SleepsBeforeRetryAlways(att) == TRUE

SleepsBeforeRetry(att) == att < MAX_RETRIES - 1

(* variant: constant delay instead of the linear increase *)
RetryDelayConstant(att) == INITIAL_RETRY_DELAY

RetryDelay(att) == INITIAL_RETRY_DELAY * (att + 1)

(* variant: off-by-one in the loop bound *)
LoopContinuesOneMore(att) == att + 1 < MAX_RETRIES + 1

LoopContinues(att) == att + 1 < MAX_RETRIES

(* variant: an error recorded earlier is not overwritten *)
ExceptClauseKeepsFirst(id, e) ==
    IF last_error # NoError THEN last_error ELSE RequestError(id, e)

(* the except clauses, in the order they are written *)
ExceptClause(id, e) ==
    IF "requests.RequestException" \in e.bases THEN RequestError(id, e)
    ELSE IF "json.JSONDecodeError" \in e.bases THEN JSONDecodeErrorMsg(id, e)
    ELSE UnexpectedError(id, e)

SuccessReturn(body) == <<JsonValue(body), PyNone>>

FailureReturn(id, err) ==
    <<PyNone,
      IF err # NoError
      THEN PyStr(Replace(err, LogPrefix(id), "API Call Failed: "))
      ELSE PyStr(<<"API Call Failed after retries">>)>>

----------------------------------------------------------------------------
(* do_math *)

Operations == {"sum", "multiply", "divide", "subtract", "power"}

Ints == (0 - MaxInt)..MaxInt

Abs(x) == IF x < 0 THEN 0 - x ELSE x

(* str() of the float x / y, y # 0: exact quotients print as "q.0", zero  *)
(* over a negative divisor is -0.0, other quotients are left symbolic     *)
FloatStr(x, y) ==
    IF x = 0 THEN (IF y < 0 THEN "-0.0" ELSE "0.0")
    ELSE IF Abs(x) % Abs(y) = 0
    THEN (IF (x < 0) # (y < 0) THEN "-" ELSE "")
         \o ToString(Abs(x) \div Abs(y)) \o ".0"
    ELSE "float(" \o ToString(x) \o "/" \o ToString(y) \o ")"

ResultIs(value) == <<"The result is ", value>>

do_math(x, y, op) ==
    LET result == IF op = "sum" THEN ToString(x + y) ELSE "unbound"
    IN IF op = "subtract" THEN ResultIs(ToString(x - y))
       ELSE IF op = "multiply" THEN ResultIs(ToString(x * y))
       ELSE IF op = "divide"
       THEN IF y = 0 THEN <<"Error: Division by zero">>
            ELSE ResultIs(FloatStr(x, y))
       ELSE <<"Error: Unknown operation">>

----------------------------------------------------------------------------
(* State machine *)

Init ==
    /\ pc = "idle"
    /\ completion = <<>>
    /\ other_args = DefaultArgs
    /\ language = ""
    /\ request_id = ""
    /\ code = <<>>
    /\ payload = NoPayload
    /\ attempt = 0
    /\ last_error = NoError
    /\ ret = NoReturn
    /\ events = <<>>
    /\ math_a = 0
    /\ math_b = 0
    /\ math_operation = ""
    /\ math_ret = NoReturn

(* variant: the retry state is not initialised by the call *)
CallKeepsRetryState(c, o, lang, id) ==
    /\ pc = "idle"
    /\ completion' = c
    /\ other_args' = o
    /\ language' = lang
    /\ UNCHANGED <<attempt, last_error>>
    /\ LET ex == ExtractCode(c)
       IN /\ code' = ex.code
          /\ IF ~ex.found
             THEN /\ pc' = "done"
                  /\ ret' = MissingCodeBlockReturn
                  /\ events' = <<>>
                  /\ UNCHANGED <<request_id, payload>>
             ELSE IF ~LanguageSupported(lang)
             THEN /\ pc' = "done"
                  /\ request_id' = id
                  /\ ret' = <<PyNone, PyStr(UnsupportedLanguageError(id, lang))>>
                  /\ events' = <<Log("error")>>
                  /\ UNCHANGED payload
             ELSE /\ pc' = "loop"
                  /\ request_id' = id
                  /\ payload' = BuildPayload(o, ex.code, lang)
                  /\ events' = <<>>
                  /\ UNCHANGED ret

(* execute_code up to the retry loop: extraction, validation, payload *)
Call(c, o, lang, id) ==
    /\ pc = "idle"
    /\ completion' = c
    /\ other_args' = o
    /\ language' = lang
    /\ attempt' = 0
    /\ last_error' = NoError
    /\ LET ex == ExtractCode(c)
       IN /\ code' = ex.code
          /\ IF ~ex.found
             THEN /\ pc' = "done"
                  /\ ret' = MissingCodeBlockReturn
                  /\ events' = <<>>
                  /\ UNCHANGED <<request_id, payload>>
             ELSE IF ~LanguageSupported(lang)
             THEN /\ pc' = "done"
                  /\ request_id' = id
                  /\ ret' = <<PyNone, PyStr(UnsupportedLanguageError(id, lang))>>
                  /\ events' = <<Log("error")>>
                  /\ UNCHANGED payload
             ELSE /\ pc' = "loop"
                  /\ request_id' = id
                  /\ payload' = BuildPayload(o, ex.code, lang)
                  /\ events' = <<>>
                  /\ UNCHANGED ret

(* leaving the loop without a success: lines after the for statement *)
LoopFails(err, evs) ==
    /\ pc' = "done"
    /\ last_error' = err
    /\ events' = evs \o <<Log("error")>>
    /\ ret' = FailureReturn(request_id, err)
    /\ UNCHANGED attempt

(* an exception raised inside the try block: the matching except clause *)
(* records the error and breaks out of the loop                          *)
Except(e, evs) ==
    LoopFails(ExceptClause(request_id, e), evs \o <<Raised(e)>>)

AttemptStart == events \o <<Log("info"), Post(RequestTimeout(other_args))>>

(* one loop iteration in which requests.post raises *)
PostRaises(e) ==
    /\ pc = "loop"
    /\ Except(e, AttemptStart)
    /\ UNCHANGED <<completion, other_args, language, request_id, code, payload>>
    /\ UNCHANGED math_vars

(* one loop iteration in which requests.post returns a response *)
RemoteResponds(status, body, decode_exc) ==
    /\ pc = "loop"
    /\ LET evs == AttemptStart \o <<Response(status)>>
       IN IF IsGatewayTimeout(status)
          THEN LET err == GatewayTimeoutError(request_id, attempt)
                   slept == IF SleepsBeforeRetry(attempt)
                            THEN <<Log("info"), Sleep(RetryDelay(attempt))>>
                            ELSE <<>>
                   evs2 == evs \o <<Log("warning")>> \o slept
               IN IF LoopContinues(attempt)
                  THEN /\ pc' = "loop"
                       /\ attempt' = attempt + 1
                       /\ last_error' = err
                       /\ events' = evs2
                       /\ UNCHANGED ret
                  ELSE LoopFails(err, evs2)
          ELSE IF RaisesForStatus(status)
          THEN Except(HTTPError(status), evs)
          ELSE LET evs2 == evs \o <<Log("info"), Json(body)>>
               IN IF IsValidJson(body)
                  THEN /\ pc' = "done"
                       /\ ret' = SuccessReturn(body)
                       /\ events' = evs2
                       /\ UNCHANGED <<attempt, last_error>>
                  ELSE Except(decode_exc, evs2)
    /\ UNCHANGED <<completion, other_args, language, request_id, code, payload>>
    /\ UNCHANGED math_vars

(* a caller invokes execute_code with some arguments; uuid4 yields the id *)
Invoke ==
    /\ pc = "idle"
    /\ \E c \in Completions, o \in OtherArgs, lang \in Languages,
          id \in RequestIds : Call(c, o, lang, id)
    /\ UNCHANGED math_vars

Next ==
    \/ Invoke
    \/ \E e \in PostExceptions : PostRaises(e)
    \/ \E status \in Statuses, body \in Bodies, d \in DecodeExceptions :
          RemoteResponds(status, body, d)

(* execute_code called again and again: the return hands the pair to the *)
(* caller and ends the frame; nothing but what the next call assigns     *)
(* itself is reset                                                       *)
RepeatCompletions == {<<>>, <<Fence, "x=1", Fence>>}

RepeatLanguages == {"python", "brainfuck"}

InvokeAgain ==
    /\ pc = "idle"
    /\ \E c \in RepeatCompletions, lang \in RepeatLanguages,
          id \in RequestIds : Call(c, DefaultArgs, lang, id)
    /\ UNCHANGED math_vars

Return ==
    /\ pc = "done"
    /\ pc' = "idle"
    /\ UNCHANGED <<completion, other_args, language, request_id, code,
                   payload, attempt, last_error, ret, events, math_vars>>

NextRepeat ==
    \/ InvokeAgain
    \/ \E e \in PostExceptions : PostRaises(e)
    \/ \E status \in Statuses, body \in Bodies, d \in DecodeExceptions :
          RemoteResponds(status, body, d)
    \/ Return

SpecRepeat == Init /\ [][NextRepeat]_vars

(* do_math as a function of its arguments *)
InitMath ==
    /\ pc = "idle"
    /\ completion = <<>>
    /\ other_args = DefaultArgs
    /\ language = ""
    /\ request_id = ""
    /\ code = <<>>
    /\ payload = NoPayload
    /\ attempt = 0
    /\ last_error = NoError
    /\ ret = NoReturn
    /\ events = <<>>
    /\ math_a \in Ints
    /\ math_b \in Ints
    /\ math_operation \in Operations
    /\ math_ret = NoReturn

DoMath ==
    /\ math_ret = NoReturn
    /\ math_ret' = do_math(math_a, math_b, math_operation)
    /\ UNCHANGED <<pc, completion, other_args, language, request_id, code,
                   payload, attempt, last_error, ret, events, math_a, math_b,
                   math_operation>>

NextMath == DoMath

SpecMath == InitMath /\ [][NextMath]_vars

(* the extraction as a function of the completion alone: longer texts, *)
(* default arguments                                                   *)
InitExtract ==
    /\ pc = "idle"
    /\ completion \in LongCompletions
    /\ other_args = DefaultArgs
    /\ language = ""
    /\ request_id = ""
    /\ code = <<>>
    /\ payload = NoPayload
    /\ attempt = 0
    /\ last_error = NoError
    /\ ret = NoReturn
    /\ events = <<>>
    /\ math_a = 0
    /\ math_b = 0
    /\ math_operation = ""
    /\ math_ret = NoReturn

Extraction ==
    /\ Call(completion, DefaultArgs, "python", "uuid-1")
    /\ UNCHANGED math_vars

NextExtract == Extraction

SpecExtract == InitExtract /\ [][NextExtract]_vars

Spec == Init /\ [][Next]_vars

----------------------------------------------------------------------------
(* Properties *)

Done == pc = "done"

IsNone(v) == v.type = "NoneType"

HasFence(c) == Contains(c, BareFence)

Is2xx(status) == 200 <= status /\ status <= 299

GatewayTimeouts(k) == [i \in 1..k |-> 504]

PostsUpTo(i) == Len(SelectSeq(SubSeq(events, 1, i), LAMBDA ev : ev.kind = "post"))

OnlyLogsAfter(i) == \A j \in (i + 1)..Len(events) : events[j].kind = "log"

ApiCallFailed(pieces) == PyStr(<<"API Call Failed: ">> \o pieces)

(* C1: every return is (None, error string) or (result, None): exactly one *)
(* half of the returned pair is set.                                        *)
C1_ExactlyOneHalf ==
    Done => \/ IsNone(ret[1]) /\ ret[2].type = "str"
            \/ ~IsNone(ret[1]) /\ IsNone(ret[2])

(* C2: a completion without any fence marker ends in an error, with no     *)
(* request built, no network call and no sleep.                            *)
C2_NoFenceNoNetwork ==
    (pc # "idle" /\ ~HasFence(completion)) =>
        /\ Done
        /\ ~IsNone(ret[2])
        /\ ret[2].val = <<"error", "Invalid completion (missing code block)">>
        /\ payload = NoPayload
        /\ Calls = 0
        /\ Sleeps = <<>>

C2_Witness ==
    /\ Done
    /\ ~HasFence(completion)
    /\ completion # <<>>
    /\ language = "rust"
    /\ other_args # DefaultArgs

(* C3 as stated: an unsupported language always yields the unsupported-    *)
(* language error and no network call, whatever the completion.            *)
C3_Original ==
    (pc # "idle" /\ language \notin SUPPORTED_LANGUAGES) =>
        /\ Done
        /\ ret = <<PyNone, PyStr(UnsupportedLanguageError(request_id, language))>>
        /\ Calls = 0

(* C3 amended: an unsupported language always yields an error and no       *)
(* network call; the error is the unsupported-language error when the      *)
(* completion has a fence, the missing-code-block error when it has none.  *)
C3_Amended ==
    (pc # "idle" /\ language \notin SUPPORTED_LANGUAGES) =>
        /\ Done
        /\ ~IsNone(ret[2])
        /\ payload = NoPayload
        /\ Calls = 0
        /\ Sleeps = <<>>
        /\ HasFence(completion) =>
              ret = <<PyNone, PyStr(UnsupportedLanguageError(request_id, language))>>
        /\ ~HasFence(completion) => ret = MissingCodeBlockReturn

C3_Witness ==
    /\ Done
    /\ language = "brainfuck"
    /\ HasFence(completion)
    /\ ret[2].val = <<LogPrefix(request_id), "Unsupported language: ", "brainfuck">>

(* C4: k gateway timeouts (k in 0..2) followed by a 2xx with a JSON body   *)
(* give (parsed body, None) after exactly k+1 calls, nothing after the     *)
(* 2xx, and sleeps of 1, .., k seconds between the calls.                  *)
C4_RetryThenSuccess ==
    \A k \in 0..(MAX_RETRIES - 1) : \A b \in Bodies :
        ( /\ Done
          /\ Len(ResponseStatuses) = k + 1
          /\ SubSeq(ResponseStatuses, 1, k) = GatewayTimeouts(k)
          /\ Is2xx(ResponseStatuses[k + 1])
          /\ OfKind("json") = <<Json(b)>>
          /\ IsValidJson(b) )
        => /\ ret = <<JsonValue(b), PyNone>>
           /\ Calls = k + 1
           /\ Sleeps = [i \in 1..k |-> i]
           /\ events[Len(events)] = Json(b)
           /\ OfKind("raise") = <<>>

C4_Witness ==
    /\ Done
    /\ ResponseStatuses = <<504, 504, 200>>
    /\ ret = <<PyDict(JsonObjectBody), PyNone>>
    /\ Sleeps = <<1, 2>>

(* C5: a gateway timeout on every attempt gives (None, error) after        *)
(* exactly MAX_RETRIES calls, the error being that of the last attempt.    *)
C5_Exhaustion ==
    ( /\ Done
      /\ ResponseStatuses # <<>>
      /\ \A i \in 1..Len(ResponseStatuses) : ResponseStatuses[i] = 504
      /\ OfKind("raise") = <<>> )
    => /\ Calls = 3
       /\ Calls = MAX_RETRIES
       /\ ret = <<PyNone,
                  ApiCallFailed(<<"API Request Error: Gateway Timeout (504) on attempt ",
                                  "3", "/", "3">>)>>

C5_Witness ==
    /\ Done
    /\ ResponseStatuses = <<504, 504, 504>>
    /\ IsNone(ret[1])

(* C6: a status that is neither 2xx nor 504 is terminal: it is the last    *)
(* response, no sleep follows it and (None, error) is returned.            *)
C6_OtherStatusTerminal ==
    \A i \in 1..Len(events) :
        ( /\ events[i].kind = "response"
          /\ ~Is2xx(events[i].n)
          /\ events[i].n # 504 )
        => /\ Done
           /\ \A j \in (i + 1)..Len(events) : events[j].kind \notin {"post", "sleep"}
           /\ IsNone(ret[1])
           /\ ret[2].type = "str"

(* C7: a 2xx response whose body is not JSON gives (None, error) with no   *)
(* further attempt, the error being the decode-failure diagnostic.         *)
C7_DecodeFailure ==
    \A i \in 1..Len(events) :
        ( /\ events[i].kind = "json"
          /\ ~IsValidJson(events[i].arg)
          /\ Is2xx(events[i - 2].n) )
        => /\ Done
           /\ \A j \in (i + 1)..Len(events) : events[j].kind \notin {"post", "sleep"}
           /\ IsNone(ret[1])
           /\ ret[2] = ApiCallFailed(<<"API Response JSON Decode Error: ",
                                       "Expecting value">>)

(* C8: never more than MAX_RETRIES outbound calls, and one call per loop   *)
(* iteration.                                                              *)
C8_BoundedCalls ==
    /\ Calls <= MAX_RETRIES
    /\ Calls <= 3
    /\ pc = "loop" => Calls = attempt
    /\ Done => Calls <= attempt + 1
    /\ \A i \in 1..(Len(events) - 1) :
          events[i].kind = "post" => events[i + 1].kind # "post"

C8_Witness ==
    /\ Done
    /\ Calls = 3
    /\ attempt = 2

(* C9: a transport failure of the call ends the loop at once: no call and  *)
(* no sleep follow it, and the returned error is that failure, also after  *)
(* earlier gateway timeouts.                                               *)
C9_TransportTerminal ==
    \A i \in 2..Len(events) : \A e \in {ConnectionError, Timeout} :
        ( /\ events[i] = Raised(e)
          /\ events[i - 1].kind = "post" )
        => /\ Done
           /\ OnlyLogsAfter(i)
           /\ ret = <<PyNone, ApiCallFailed(<<"API Request Error: ", e.text>>)>>

C9_Witness ==
    /\ Done
    /\ ResponseStatuses = <<504, 504>>
    /\ events[Len(events) - 1] = Raised(Timeout)
    /\ Sleeps = <<1, 2>>

(* C10: a sleep happens only directly after a 504 on an attempt that is    *)
(* not the last, for INITIAL_RETRY_DELAY * (attempt index + 1) seconds;    *)
(* a 504 on the last attempt is followed by the return of its error.       *)
C10_SleepOnlyAfter504 ==
    /\ \A i \in 1..Len(events) :
          events[i].kind = "sleep" =>
              LET a == PostsUpTo(i) - 1
              IN /\ i > 3
                 /\ events[i - 3] = Response(504)
                 /\ events[i - 2] = Log("warning")
                 /\ events[i - 1] = Log("info")
                 /\ a < MAX_RETRIES - 1
                 /\ events[i].n = INITIAL_RETRY_DELAY * (a + 1)
    /\ \A i \in 1..Len(events) :
          (events[i] = Response(504) /\ PostsUpTo(i) = MAX_RETRIES) =>
              /\ Done
              /\ OnlyLogsAfter(i)
              /\ ret = <<PyNone,
                         ApiCallFailed(<<"API Request Error: Gateway Timeout (504) on attempt ",
                                         ToString(MAX_RETRIES), "/", ToString(MAX_RETRIES)>>)>>

C10_Witness ==
    /\ Done
    /\ Sleeps = <<1, 2>>
    /\ ResponseStatuses = <<504, 504, 504>>
    /\ events[Len(events)] = Log("error")

----------------------------------------------------------------------------
(* Properties of the extraction, under SpecExtract *)

UpToFence(s) ==
    LET j == Find(s, BareFence)
    IN IF j = 0 THEN s ELSE SubSeq(s, 1, j - 1)

AfterIndex(c, i, sep) == SubSeq(c, i + Len(sep), Len(c))

LastIndexOf(c, sep) ==
    CHOOSE i \in 1..(Len(c) - Len(sep) + 1) :
        /\ SubSeq(c, i, i + Len(sep) - 1) = sep
        /\ \A j \in (i + 1)..(Len(c) - Len(sep) + 1) :
              SubSeq(c, j, j + Len(sep) - 1) # sep

(* C11 as stated: with a tagged fence, the code sent is the text between   *)
(* the FIRST tagged fence and the next bare fence marker.                  *)
C11_FirstTaggedBlock ==
    (pc # "idle" /\ Contains(completion, TaggedFence)) =>
        /\ payload # NoPayload
        /\ payload.code =
              UpToFence(AfterIndex(completion, Find(completion, TaggedFence),
                                   TaggedFence))

(* C11 amended: with a tagged fence, the code sent is the text between the *)
(* LAST tagged fence and the next bare fence marker after it (or the end   *)
(* of the text when none follows).                                         *)
C11_LastTaggedBlock ==
    (pc # "idle" /\ Contains(completion, TaggedFence)) =>
        /\ payload # NoPayload
        /\ payload.code =
              UpToFence(AfterIndex(completion, LastIndexOf(completion, TaggedFence),
                                   TaggedFence))

C11_Witness ==
    /\ pc = "loop"
    /\ completion = <<Fence, "python", Fence, "python", "x=1">>
    /\ payload.code = <<"x=1">>

(* a line that is one alphabetic word, possibly surrounded by whitespace *)
SingleAlphaToken(line) ==
    \E lo, hi \in 1..Len(line) :
        /\ lo <= hi
        /\ \A i \in 1..Len(line) :
              IF lo <= i /\ i <= hi THEN line[i] \in AlphaTokens
              ELSE line[i] \in WhitespaceTokens

(* C12: with a bare fence and no tagged fence, the code sent is the first  *)
(* fenced segment, without its first line when that line (up to the first  *)
(* newline) is a single alphabetic token, unchanged otherwise.             *)
C12_BareFenceBlock ==
    (pc # "idle" /\ ~Contains(completion, TaggedFence) /\ HasFence(completion)) =>
        LET seg == UpToFence(AfterIndex(completion, Find(completion, BareFence),
                                        BareFence))
            nl == Find(seg, <<"\n">>)
        IN /\ payload # NoPayload
           /\ IF nl # 0 /\ SingleAlphaToken(SubSeq(seg, 1, nl - 1))
              THEN payload.code = SubSeq(seg, nl + 1, Len(seg))
              ELSE payload.code = seg

C12_Witness ==
    /\ pc = "loop"
    /\ completion = <<Fence, " ", "python", "\n", "x=1">>
    /\ payload.code = <<"x=1">>

----------------------------------------------------------------------------
(* Properties of the request identifier and of the log, under Spec *)

(* C13: the request identifier is used for log correlation only: it occurs *)
(* neither in the returned error nor in the request, on any path.          *)
C13_IdOnlyInLogs ==
    Done =>
        /\ \A id \in RequestIds : \A i \in 1..Len(ret[2].val) :
              ret[2].val[i] \notin {id, LogPrefix(id)}
        /\ payload \in {NoPayload, BuildPayload(other_args, code, language)}

(* C15: every failure path logs at error level before it returns. *)
C15_FailureLogged ==
    (Done /\ ~IsNone(ret[2])) =>
        \E i \in 1..Len(events) : events[i] = Log("error")

----------------------------------------------------------------------------
(* Properties of repeated calls, under SpecRepeat *)

(* C14: whatever calls came before, a call enters the retry loop at        *)
(* attempt 0 with no recorded error; inside the loop the attempt index and *)
(* the recorded error are those of this call's own attempts, and the call  *)
(* has all MAX_RETRIES attempts.                                           *)
C14_RetryStatePerCall ==
    /\ pc = "loop" =>
          /\ attempt = Calls
          /\ attempt < MAX_RETRIES
          /\ last_error = IF Calls = 0 THEN NoError
                          ELSE GatewayTimeoutError(request_id, Calls - 1)
    /\ ( /\ Done
         /\ ResponseStatuses # <<>>
         /\ \A i \in 1..Len(ResponseStatuses) : ResponseStatuses[i] = 504
         /\ OfKind("raise") = <<>> )
       => Calls = MAX_RETRIES

(* a call that has just entered the loop, after an earlier call that *)
(* was exhausted by three gateway timeouts                           *)
C14_Witness ==
    /\ pc = "loop"
    /\ Calls = 0
    /\ attempt = 0
    /\ last_error = NoError
    /\ ret = <<PyNone,
               ApiCallFailed(<<"API Request Error: Gateway Timeout (504) on attempt ",
                               "3", "/", "3">>)>>

----------------------------------------------------------------------------
(* Properties of do_math, under SpecMath *)

DeclaredOperations == {"sum", "multiply", "divide", "subtract"}

(* C16: for the declared operations do_math returns "The result is v" with *)
(* v the sum, product, quotient or difference (division by zero gives its  *)
(* own error); "Error: Unknown operation" only for undeclared operations.  *)
C16_DoMath ==
    math_ret # NoReturn =>
        /\ math_operation = "sum" =>
              math_ret = <<"The result is ", ToString(math_a + math_b)>>
        /\ math_operation = "multiply" =>
              math_ret = <<"The result is ", ToString(math_a * math_b)>>
        /\ math_operation = "subtract" =>
              math_ret = <<"The result is ", ToString(math_a - math_b)>>
        /\ (math_operation = "divide" /\ math_b = 0) =>
              math_ret = <<"Error: Division by zero">>
        /\ (math_operation = "divide" /\ math_b # 0) =>
              /\ Len(math_ret) = 2
              /\ math_ret[1] = "The result is "
        /\ math_ret = <<"Error: Unknown operation">> =>
              math_operation \notin DeclaredOperations

====
